---- MODULE Spec2Model ----
(***************************************************************************)
(* Model of server.py: the employees/users/admin tables, the upload        *)
(* directory and the six request handlers (login, check-key, create, list, *)
(* get, delete).  Text is a sequence of one-character strings so that      *)
(* trimming, extension parsing and filename sanitisation are computed.     *)
(***************************************************************************)
EXTENDS Integers, Sequences, FiniteSets, TLC

VARIABLES
    employees,  \* the employees table: id -> row
    seq,        \* sqlite_sequence for employees: the largest id ever assigned
    files,      \* the upload directory: file name -> content
    now,        \* int(time.time())
    req,        \* the request being answered, Idle between requests
    resp,       \* the response to req
    issued      \* history: every employee_id a create has returned with 201

vars == <<employees, seq, files, now, req, resp, issued>>

\* ------------------------------------------------------------ bounds
MaxId == 3
MaxTime == 1

\* ------------------------------------------------------------ text helpers
\* Python None; text is a sequence of one-character strings, never this one
None == <<"None">>

Whitespace == {" ", "\t"}

\* str.lower() on the characters the inputs use
LowerChar(c) ==
    CASE c = "P" -> "p"
      [] c = "N" -> "n"
      [] c = "G" -> "g"
      [] OTHER -> c

lower(s) == [i \in 1..Len(s) |-> LowerChar(s[i])]

RECURSIVE lstrip(_, _)
lstrip(s, chars) ==
    IF s = <<>> THEN <<>>
    ELSE IF Head(s) \in chars THEN lstrip(Tail(s), chars) ELSE s

RECURSIVE rstrip(_, _)
rstrip(s, chars) ==
    IF s = <<>> THEN <<>>
    ELSE IF s[Len(s)] \in chars THEN rstrip(SubSeq(s, 1, Len(s) - 1), chars) ELSE s

\* str.strip(): leading and trailing whitespace removed
stripNone(s) == s

strip(s) == rstrip(lstrip(s, Whitespace), Whitespace)

\* request.form.get(k) or "": an absent field reads as the empty string
FormGet(form, k) == IF form[k] = None THEN <<>> ELSE form[k]

\* index of the last "." of s, 0 when there is none
RECURSIVE LastDot(_)
LastDot(s) ==
    IF s = <<>> THEN 0
    ELSE IF s[Len(s)] = "." THEN Len(s) ELSE LastDot(SubSeq(s, 1, Len(s) - 1))

\* filename.rsplit(".", 1)[1]
rsplitExt(s) == SubSeq(s, LastDot(s) + 1, Len(s))

ALLOWED_EXTENSIONS ==
    { <<"p","n","g">>, <<"j","p","g">>, <<"j","p","e","g">>,
      <<"w","e","b","p">>, <<"g","i","f">> }

allowed_file(filename) ==
    LastDot(filename) # 0 /\ lower(rsplitExt(filename)) \in ALLOWED_EXTENSIONS

\* str(int): decimal digits
Digit(d) ==
    CASE d = 0 -> "0" [] d = 1 -> "1" [] d = 2 -> "2" [] d = 3 -> "3"
      [] d = 4 -> "4" [] d = 5 -> "5" [] d = 6 -> "6" [] d = 7 -> "7"
      [] d = 8 -> "8" [] d = 9 -> "9"

RECURSIVE IntToStr(_)
IntToStr(n) ==
    IF n < 10 THEN <<Digit(n)>> ELSE IntToStr(n \div 10) \o <<Digit(n % 10)>>

\* ------------------------------------------------------------ werkzeug secure_filename
SafeChars ==
    {"a", "b", "c", "d", "e", "f", "g", "h", "i", "j", "k", "l", "m", "n", "o",
     "p", "q", "r", "s", "t", "u", "v", "w", "x", "y", "z", "P", "N", "G",
     "0", "1", "2", "3", "4", "5", "6", "7", "8", "9", "_", ".", "-"}

\* filename.replace(os.sep, " ")
ReplaceSep(s) == [i \in 1..Len(s) |-> IF s[i] = "/" THEN " " ELSE s[i]]

\* "_".join(s.split()): whitespace runs become one "_", none at the ends
RECURSIVE JoinSplit(_, _)
JoinSplit(s, started) ==
    LET t == lstrip(s, Whitespace) IN
    IF t = <<>> THEN <<>>
    ELSE IF Head(s) \in Whitespace
         THEN (IF started THEN <<"_">> ELSE <<>>) \o JoinSplit(t, started)
         ELSE <<Head(s)>> \o JoinSplit(Tail(s), TRUE)

\* _filename_ascii_strip_re.sub("", s): drop everything outside [A-Za-z0-9_.-]
RECURSIVE AsciiStrip(_)
AsciiStrip(s) ==
    IF s = <<>> THEN <<>>
    ELSE (IF Head(s) \in SafeChars THEN <<Head(s)>> ELSE <<>>) \o AsciiStrip(Tail(s))

secure_filename(s) ==
    LET t == AsciiStrip(JoinSplit(ReplaceSep(s), FALSE))
    IN rstrip(lstrip(t, {".", "_"}), {".", "_"})

\* f"{roll_number}_{int(time.time())}.{ext}" before sanitisation
RawPhotoName(roll, t, ext) == roll \o <<"_">> \o IntToStr(t) \o <<".">> \o ext

PhotoName(roll, t, ext) == secure_filename(RawPhotoName(roll, t, ext))

\* str(UPLOAD_DIR / fname) as path components; os.path.basename is the last one
UPLOAD_DIR == "uploads"

SavePath(fname) == <<UPLOAD_DIR, fname>>

basename(path) == path[Len(path)]

PhotoUrl(path) ==
    IF path = None THEN None ELSE <<"/uploads/", basename(path)>>

\* ------------------------------------------------------------ seeded tables (init_db)
Users == { [username |-> "hidan", password |-> "killer"] }

Admin == { "ceo@2025" }

\* ------------------------------------------------------------ employees table
Ids == DOMAIN employees

SetMax(S) == CHOOSE x \in S : \A y \in S : y <= x

\* INTEGER PRIMARY KEY without AUTOINCREMENT: one more than the largest live rowid
NextRowidNoAuto(emps, s) == IF DOMAIN emps = {} THEN 1 ELSE SetMax(DOMAIN emps) + 1

\* INTEGER PRIMARY KEY AUTOINCREMENT: one more than the largest rowid ever used
NextRowid(emps, s) == SetMax(DOMAIN emps \cup {s}) + 1

UniqueViolationOff(emps, roll) == FALSE

\* roll_number TEXT NOT NULL UNIQUE (BINARY collation: exact text equality)
UniqueViolation(emps, roll) == \E i \in DOMAIN emps : emps[i].roll_number = roll

InsertRow(emps, id, row) == [i \in DOMAIN emps \cup {id} |-> IF i = id THEN row ELSE emps[i]]

DeleteRowNoCommit(emps, id) == emps

\* DELETE FROM employees WHERE id=?
DeleteRow(emps, id) == [i \in DOMAIN emps \ {id} |-> emps[i]]

row_to_employee_dict(id, row) ==
    [ id |-> id, name |-> row.name, email |-> row.email,
      department |-> row.department, role |-> row.role,
      roll_number |-> row.roll_number, photo_url |-> PhotoUrl(row.photo_path) ]

RECURSIVE OrderByIdAsc(_, _)
OrderByIdAsc(emps, S) ==
    IF S = {} THEN <<>>
    ELSE LET m == SetMax(S)
         IN OrderByIdAsc(emps, S \ {m}) \o <<row_to_employee_dict(m, emps[m])>>

\* SELECT ... FROM employees ORDER BY id DESC, each row shaped for the client
RECURSIVE OrderByIdDesc(_, _)
OrderByIdDesc(emps, S) ==
    IF S = {} THEN <<>>
    ELSE LET m == SetMax(S)
         IN <<row_to_employee_dict(m, emps[m])>> \o OrderByIdDesc(emps, S \ {m})

\* ------------------------------------------------------------ upload directory
\* photo.save(save_path): creates or overwrites the file
SaveFile(fs, fname, content) ==
    [n \in DOMAIN fs \cup {fname} |-> IF n = fname THEN content ELSE fs[n]]

\* os.remove(photo_path)
RemoveFile(fs, fname) == [n \in DOMAIN fs \ {fname} |-> fs[n]]

\* ------------------------------------------------------------ responses
Json(status, body) == [status |-> status, json |-> TRUE, body |-> body]

\* an exception that leaves the handler: the framework's own error page
Unhandled == [status |-> 500, json |-> FALSE, body |-> [error |-> "unhandled"]]

Fields == <<"name", "email", "department", "role", "roll_number">>

RECURSIVE missingFirst(_, _)
missingFirst(vals, i) ==
    IF i > Len(Fields) THEN <<>>
    ELSE IF vals[Fields[i]] = <<>> THEN <<Fields[i]>> ELSE missingFirst(vals, i + 1)

\* [k for k, v in {...}.items() if not v], in the dict's insertion order
RECURSIVE missing(_, _)
missing(vals, i) ==
    IF i > Len(Fields) THEN <<>>
    ELSE (IF vals[Fields[i]] = <<>> THEN <<Fields[i]>> ELSE <<>>) \o missing(vals, i + 1)

\* ------------------------------------------------------------ request inputs
Faults == {"none", "db", "fs"}

NameIn == { None, <<" ", "n", "\t">> }
EmailIn == { <<>>, <<"e">> }
DepartmentIn == { <<" ">>, <<"d">> }
RoleIn == { None, <<"r">> }

NoPhoto == [part |-> FALSE, filename |-> <<>>, content |-> "none"]

Photo(filename, content) == [part |-> TRUE, filename |-> filename, content |-> content]

Png == <<"x", ".", "p", "n", "g">>
PngUpper == <<"x", ".", "P", "N", "G">>
Exe == <<"x", ".", "e", "x", "e">>
NoDot == <<"p", "n", "g">>

Photos ==
    { NoPhoto, Photo(Png, "p1"), Photo(Png, "p2"), Photo(PngUpper, "p1"),
      Photo(Exe, "p1"), Photo(NoDot, "p1"), Photo(<<>>, "p1") }

Complete(rolls) ==
    [ name : {<<" ", "n", "\t">>}, email : {<<"e">>}, department : {<<"d">>},
      role : {<<"r">>}, roll_number : rolls ]

\* complete forms: two roll numbers under every photo, a third without a stored photo
CreateByRoll ==
    [ form : Complete({<<"a", " ", "b">>, <<"a", "_", "b">>}), photo : Photos ]
      \cup [ form : Complete({<<"c">>, <<" ", "c">>}), photo : {NoPhoto, Photo(NoDot, "p1")} ]

\* every combination of absent, blank and present fields
CreateByFields ==
    [ form : [ name : NameIn, email : EmailIn, department : DepartmentIn,
               role : RoleIn, roll_number : {<<" ">>, <<"c">>} ],
      photo : {NoPhoto, Photo(Exe, "p1")} ]

CreateInputs == CreateByRoll \cup CreateByFields

Idle == [op |-> "none", fault |-> "none"]

NoResp == [status |-> 0, json |-> FALSE, body |-> [error |-> "none"]]

\* ------------------------------------------------------------ POST /api/employees
create_employee(form, photo, fault) ==
    LET vals == [k \in DOMAIN form |-> strip(FormGet(form, k))]
        miss == missing(vals, 1)
        roll == vals.roll_number
        hasPhoto == photo.part /\ photo.filename # <<>>
        ext == lower(rsplitExt(photo.filename))
        fname == PhotoName(roll, now, ext)
        photo_path == IF hasPhoto THEN SavePath(fname) ELSE None
        saved == IF hasPhoto THEN SaveFile(files, fname, photo.content) ELSE files
        emp_id == NextRowid(employees, seq)
        row == [ name |-> vals.name, email |-> vals.email,
                 department |-> vals.department, role |-> vals.role,
                 roll_number |-> roll, photo_path |-> photo_path ]
    IN
    /\ req = Idle
    /\ req' = [op |-> "create", form |-> form, photo |-> photo, fault |-> fault]
    /\ now' = now
    /\ IF miss # <<>>
       THEN /\ resp' = Json(400, [ok |-> FALSE, message |-> <<"Missing fields", miss>>])
            /\ UNCHANGED <<employees, seq, files, issued>>
       ELSE IF hasPhoto /\ ~allowed_file(photo.filename)
       THEN /\ resp' = Json(415, [ok |-> FALSE, message |-> <<"Unsupported image type">>])
            /\ UNCHANGED <<employees, seq, files, issued>>
       ELSE IF hasPhoto /\ fault = "fs"
       THEN \* photo.save raises; caught by "except Exception"
            /\ resp' = Json(500, [ok |-> FALSE, message |-> <<"OSError">>])
            /\ UNCHANGED <<employees, seq, files, issued>>
       ELSE IF fault = "db"
       THEN \* the insert raises a non-integrity error after the file was written
            /\ resp' = Json(500, [ok |-> FALSE, message |-> <<"OperationalError">>])
            /\ files' = saved
            /\ UNCHANGED <<employees, seq, issued>>
       ELSE IF UniqueViolation(employees, roll)
       THEN \* sqlite3.IntegrityError: the transaction rolls back, the file stays
            /\ resp' = Json(409, [ok |-> FALSE, message |-> <<"Roll number already exists.">>])
            /\ files' = saved
            /\ UNCHANGED <<employees, seq, issued>>
       ELSE /\ emp_id <= MaxId
            /\ employees' = InsertRow(employees, emp_id, row)
            /\ seq' = emp_id
            /\ files' = saved
            /\ issued' = issued \cup {emp_id}
            /\ resp' = Json(201, [ok |-> TRUE, employee_id |-> emp_id,
                                  photo_url |-> PhotoUrl(photo_path)])

\* ------------------------------------------------------------ GET /api/employees
list_employees(fault) ==
    /\ req = Idle
    /\ req' = [op |-> "list", fault |-> fault]
    /\ resp' = IF fault = "db" THEN Unhandled
               ELSE Json(200, [ok |-> TRUE, employees |-> OrderByIdDesc(employees, Ids)])
    /\ UNCHANGED <<employees, seq, files, now, issued>>

\* ------------------------------------------------------------ GET /api/employees/<id>
get_employee(emp_id, fault) ==
    /\ req = Idle
    /\ req' = [op |-> "get", id |-> emp_id, fault |-> fault]
    /\ resp' = IF fault = "db" THEN Unhandled
               ELSE IF emp_id \notin Ids
               THEN Json(404, [ok |-> FALSE, message |-> <<"Not found">>])
               ELSE Json(200, [ok |-> TRUE,
                               employee |-> row_to_employee_dict(emp_id, employees[emp_id])])
    /\ UNCHANGED <<employees, seq, files, now, issued>>

\* ------------------------------------------------------------ DELETE /api/employees/<id>
delete_employee(emp_id, fault) ==
    /\ req = Idle
    /\ req' = [op |-> "delete", id |-> emp_id, fault |-> fault]
    /\ UNCHANGED <<seq, now, issued>>
    /\ IF fault = "db"
       THEN /\ resp' = Unhandled
            /\ UNCHANGED <<employees, files>>
       ELSE IF emp_id \notin Ids
       THEN /\ resp' = Json(404, [ok |-> FALSE, message |-> <<"Employee not found">>])
            /\ UNCHANGED <<employees, files>>
       ELSE LET photo_path == employees[emp_id].photo_path
                exists == photo_path # None /\ basename(photo_path) \in DOMAIN files
            IN /\ employees' = DeleteRow(employees, emp_id)
               /\ files' = IF exists /\ fault # "fs"
                           THEN RemoveFile(files, basename(photo_path))
                           ELSE files  \* os.remove raised: "except Exception: pass"
               /\ resp' = Json(200, [ok |-> TRUE, message |-> <<"Employee deleted">>])

\* ------------------------------------------------------------ POST /login
Field(present, text) == [present |-> present, text |-> text]

LoginIn == { Field(FALSE, ""), Field(TRUE, ""), Field(TRUE, "hidan"), Field(TRUE, "killer") }

\* request.form.get(k) or ""
LoginGet(f) == IF f.present THEN f.text ELSE ""

login(username, password, fault) ==
    LET u == LoginGet(username)
        p == LoginGet(password)
        row == \E r \in Users : r.username = u /\ r.password = p
    IN
    /\ req = Idle
    /\ req' = [op |-> "login", username |-> username, password |-> password, fault |-> fault]
    /\ resp' = IF fault = "db"
               THEN Json(500, [status |-> "error", message |-> <<"OperationalError">>])
               ELSE Json(200, [status |-> IF row THEN "success" ELSE "fail"])
    /\ UNCHANGED <<employees, seq, files, now, issued>>

\* ------------------------------------------------------------ POST /api/check-key
Val(t, v) == [t |-> t, v |-> v]

\* JSON values a body or a key can be; numbers carry their decimal text
JVals ==
    { Val("null", ""), Val("bool", "false"), Val("bool", "true"),
      Val("num", "0"), Val("num", "5"),
      Val("str", ""), Val("str", "ceo@2025"), Val("str", "wrong"),
      Val("list", "[]"), Val("list", "[1]"), Val("obj", "{}"), Val("obj", "{a:1}") }

NoKey == { Val("nokey", "{}"), Val("nokey", "{other:1}") }

\* the request body: none, not JSON, a JSON value that is no object, an object
Bodies ==
    [kind : {"absent", "malformed"}, val : {Val("none", "")}]
      \cup [kind : {"value"}, val : {v \in JVals : v.t # "obj"}]
      \cup [kind : {"object"}, val : JVals \cup NoKey]

\* Python truth value of a parsed JSON value
Truthy(b) ==
    CASE b.kind \in {"absent", "malformed"} -> FALSE  \* get_json(silent=True) gives None
      [] b.kind = "object" -> b.val # Val("nokey", "{}")
      [] OTHER ->
           CASE b.val.t = "null" -> FALSE
             [] b.val.t = "bool" -> b.val.v = "true"
             [] b.val.t = "num" -> b.val.v # "0"
             [] b.val.t = "str" -> b.val.v # ""
             [] OTHER -> b.val.v # "[]"

\* request.get_json(silent=True) or {}
DataOf(b) == IF Truthy(b) THEN b ELSE [kind |-> "object", val |-> Val("nokey", "{}")]

\* data.get("key", "")
KeyOf(data) == IF data.val.t = "nokey" THEN Val("str", "") ELSE data.val

\* sqlite3 binds str, int, float, bool and None; a list or dict parameter raises
Bindable(key) == key.t \in {"str", "num", "bool", "null"}

\* adminpass=? on a TEXT column: the parameter is compared as text, NULL never matches
SqlText(key) ==
    CASE key.t = "bool" -> (IF key.v = "true" THEN "1" ELSE "0")
      [] OTHER -> key.v

AdminRow(key) == key.t # "null" /\ SqlText(key) \in Admin

check_key(body, fault) ==
    LET data == DataOf(body)
        key == KeyOf(data)
    IN
    /\ req = Idle
    /\ req' = [op |-> "check_key", body |-> body, fault |-> fault]
    /\ resp' = IF data.kind # "object" THEN Unhandled       \* AttributeError on data.get
               ELSE IF fault = "db" THEN Unhandled            \* no try/except here
               ELSE IF ~Bindable(key) THEN Unhandled          \* sqlite3 binding error
               ELSE Json(200, [ok |-> AdminRow(key)])
    /\ UNCHANGED <<employees, seq, files, now, issued>>

\* ------------------------------------------------------------ the clock behind time.time()
Tick ==
    /\ req = Idle
    /\ now < MaxTime
    /\ now' = now + 1
    /\ UNCHANGED <<employees, seq, files, req, resp, issued>>

\* the response is sent; the server waits for the next request
Reply ==
    /\ req # Idle
    /\ req' = Idle
    /\ resp' = NoResp
    /\ UNCHANGED <<employees, seq, files, now, issued>>

\* ------------------------------------------------------------ specifications
Init ==
    /\ employees = <<>>
    /\ seq = 0
    /\ files = <<>>
    /\ now = 0
    /\ issued = {}
    /\ req = Idle
    /\ resp = NoResp

\* storage and filesystem calls succeed
Next ==
    \/ \E c \in CreateInputs : create_employee(c.form, c.photo, "none")
    \/ list_employees("none")
    \/ \E id \in 1..MaxId : get_employee(id, "none")
    \/ \E id \in 1..MaxId : delete_employee(id, "none")
    \/ \E u \in LoginIn, p \in LoginIn : login(u, p, "none")
    \/ \E body \in Bodies : check_key(body, "none")
    \/ Tick
    \/ Reply

Spec == Init /\ [][Next]_vars

\* storage and filesystem calls may raise
NextFault ==
    \/ \E c \in CreateInputs, f \in Faults : create_employee(c.form, c.photo, f)
    \/ \E f \in Faults : list_employees(f)
    \/ \E id \in 1..MaxId, f \in Faults : get_employee(id, f)
    \/ \E id \in 1..MaxId, f \in Faults : delete_employee(id, f)
    \/ \E u \in LoginIn, p \in LoginIn, f \in Faults : login(u, p, f)
    \/ \E body \in Bodies, f \in Faults : check_key(body, f)
    \/ Tick
    \/ Reply

SpecFault == Init /\ [][NextFault]_vars

\* ------------------------------------------------------------ vocabulary of the properties
FieldSet == {"name", "email", "department", "role", "roll_number"}

\* absent, empty or nothing but whitespace
IsBlank(v) == v = None \/ \A i \in 1..Len(v) : v[i] \in {" ", "\t"}

\* t is v without its leading and trailing whitespace
IsTrimOf(t, v) ==
    IF IsBlank(v) THEN t = <<>>
    ELSE \E i \in 1..Len(v) : \E j \in i..Len(v) :
            /\ t = SubSeq(v, i, j)
            /\ v[i] \notin {" ", "\t"} /\ v[j] \notin {" ", "\t"}
            /\ \A k \in 1..Len(v) : (k < i \/ k > j) => v[k] \in {" ", "\t"}

\* the filename ends in "." and an allowed extension, in any letter case
HasAllowedExt(fn) ==
    \E e \in ALLOWED_EXTENSIONS :
        /\ Len(fn) > Len(e)
        /\ fn[Len(fn) - Len(e)] = "."
        /\ \A i \in 1..Len(e) : LowerChar(fn[Len(fn) - Len(e) + i]) = e[i]

Attached(photo) == photo.part /\ photo.filename # <<>>

PassesValidation(r) ==
    /\ \A k \in FieldSet : ~IsBlank(r.form[k])
    /\ Attached(r.photo) => HasAllowedExt(r.photo.filename)

RollInUse(emps, submitted) ==
    \E i \in DOMAIN emps : IsTrimOf(emps[i].roll_number, submitted)

RollsUnique ==
    \A i, j \in Ids : i # j => employees[i].roll_number # employees[j].roll_number

SeqToSet(q) == {q[i] : i \in 1..Len(q)}

\* ------------------------------------------------------------ C1
\* C1 as stated: every create whose trimmed roll_number is that of an existing
\* row answers 409 and inserts nothing.
C1_AsStated ==
    [][ (req'.op = "create" /\ RollInUse(employees, req'.form.roll_number))
          => (resp'.status = 409 /\ employees' = employees) ]_vars

\* C1 amended: a create that passes validation and whose trimmed roll_number is
\* that of an existing row answers 409 and inserts nothing; a row only ever
\* appears through a create answered 201 for its roll_number; and no two rows
\* share a roll_number.
C1_DuplicateRollRejected ==
    [][ /\ (req'.op = "create" /\ PassesValidation(req')
             /\ RollInUse(employees, req'.form.roll_number))
            => (resp'.status = 409 /\ employees' = employees)
        /\ \A i \in DOMAIN employees' \ Ids :
              /\ req'.op = "create" /\ resp'.status = 201
              /\ resp'.body.employee_id = i
              /\ IsTrimOf(employees'[i].roll_number, req'.form.roll_number)
        /\ RollsUnique' ]_vars

C1_Witness ==
    /\ req.op = "create" /\ resp.status = 409
    /\ Cardinality(Ids) >= 2
    /\ RollInUse(employees, req.form.roll_number)

\* ------------------------------------------------------------ C2
\* C2: a create with a blank or absent field answers 400 naming exactly the
\* blank fields, whatever the photo; one with all fields and a photo of a
\* type outside the allowed set answers 415; neither changes the table, the
\* id sequence or the upload directory.
C2_ValidationNoSideEffect ==
    [][ req'.op = "create" =>
          LET blank == {k \in FieldSet : IsBlank(req'.form[k])} IN
          /\ blank # {} =>
                /\ resp'.status = 400
                /\ resp'.body.message[1] = "Missing fields"
                /\ SeqToSet(resp'.body.message[2]) = blank
                /\ Len(resp'.body.message[2]) = Cardinality(blank)
          /\ (blank = {} /\ Attached(req'.photo) /\ ~HasAllowedExt(req'.photo.filename))
                => resp'.status = 415
          /\ resp'.status \in {400, 415} =>
                /\ ~PassesValidation(req')
                /\ employees' = employees /\ files' = files /\ seq' = seq ]_vars

C2_Witness ==
    /\ req.op = "create" /\ resp.status = 400
    /\ Len(resp.body.message[2]) = 3
    /\ Attached(req.photo)
    /\ Ids # {} /\ DOMAIN files # {}

\* ------------------------------------------------------------ C3
\* C3: deleting an id without a row answers 404 and leaves the table as it
\* was; deleting an id with a row answers 200, removes that row and no other,
\* and its photo file is gone afterwards; an id whose row was deleted answers
\* 404 to every later get and delete.
C3_Delete ==
    [][ /\ (req'.op = "delete" /\ req'.id \notin Ids)
            => (resp'.status = 404 /\ employees' = employees)
        /\ (req'.op = "delete" /\ req'.id \in Ids)
            => /\ resp'.status = 200
               /\ DOMAIN employees' = Ids \ {req'.id}
               /\ \A j \in Ids \ {req'.id} : employees'[j] = employees[j]
               /\ employees[req'.id].photo_path # None
                     => employees[req'.id].photo_path[2] \notin DOMAIN files'
        /\ (req'.op \in {"get", "delete"} /\ req'.id \in issued \ Ids)
            => resp'.status = 404 ]_vars

C3_Witness ==
    /\ req.op = "delete" /\ resp.status = 404
    /\ req.id \in issued
    /\ Ids # {}

\* ------------------------------------------------------------ C4
\* C4: the list answers 200 with one entry per existing row, carrying that
\* row's fields, in strictly decreasing order of id.
C4_ListOrdered ==
    req.op = "list" =>
       /\ resp.status = 200 /\ resp.body.ok
       /\ LET l == resp.body.employees IN
          /\ Len(l) = Cardinality(Ids)
          /\ \A i \in 1..Len(l) :
                /\ l[i].id \in Ids
                /\ l[i].name = employees[l[i].id].name
                /\ l[i].roll_number = employees[l[i].id].roll_number
          /\ \A i, j \in 1..Len(l) : i < j => l[i].id > l[j].id

C4_Witness ==
    /\ req.op = "list"
    /\ Len(resp.body.employees) = 2
    /\ Cardinality(issued) = 3

\* ------------------------------------------------------------ C5
\* C5: a create with all five fields, no photo part and a roll_number not in
\* use answers 201 with an employee_id and a null photo_url, and stores the
\* trimmed fields; a stored row never changes while it exists; a get of an
\* existing id answers 200 with the stored fields (photo_url null when no
\* photo is recorded).
C5_CreateThenGet ==
    [][ /\ (req'.op = "create" /\ (\A k \in FieldSet : ~IsBlank(req'.form[k]))
             /\ ~req'.photo.part /\ ~RollInUse(employees, req'.form.roll_number))
            => /\ resp'.status = 201 /\ resp'.body.ok
               /\ resp'.body.photo_url = None
               /\ resp'.body.employee_id \in DOMAIN employees' \ Ids
               /\ LET row == employees'[resp'.body.employee_id] IN
                  /\ \A k \in FieldSet : IsTrimOf(row[k], req'.form[k])
                  /\ row.photo_path = None
        /\ \A i \in Ids \cap DOMAIN employees' : employees'[i] = employees[i]
        /\ (req'.op = "get" /\ req'.id \in Ids)
            => /\ resp'.status = 200 /\ resp'.body.ok
               /\ resp'.body.employee.id = req'.id
               /\ \A k \in FieldSet : resp'.body.employee[k] = employees[req'.id][k]
               /\ employees[req'.id].photo_path = None
                     => resp'.body.employee.photo_url = None ]_vars

C5_Witness ==
    /\ req.op = "get" /\ resp.status = 200
    /\ resp.body.employee.photo_url = None
    /\ resp.body.employee.name = <<"n">>
    /\ resp.body.employee.roll_number = <<"a", " ", "b">>

\* ------------------------------------------------------------ C6
\* C6 as stated: the key check answers 200 with {ok} for every body, ok being
\* true exactly when the body is an object whose key is the seeded admin key.
C6_AsStated ==
    req.op = "check_key" =>
       /\ resp.status = 200 /\ resp.json
       /\ resp.body.ok <=>
             (req.body.kind = "object" /\ req.body.val = Val("str", "ceo@2025"))

\* ------------------------------------------------------------ C7
\* the request gets as far as its storage call
ReachesStorage(r) ==
    CASE r.op = "create" -> PassesValidation(r)
      [] r.op = "check_key" -> r.body.kind = "object" /\ r.body.val.t \in {"str", "nokey"}
      [] OTHER -> r.op # "none"

\* C7 as stated: whichever handler runs, a storage failure raised during the
\* request is answered with a JSON body carrying an ok or status flag and a
\* message.
C7_AsStated ==
    (req.fault = "db" /\ ReachesStorage(req)) =>
       /\ resp.json
       /\ {"ok", "status"} \cap DOMAIN resp.body # {}
       /\ "message" \in DOMAIN resp.body

\* ------------------------------------------------------------ C8
\* C8: the employee_id of a successful create is greater than every
\* employee_id a successful create returned before.
C8_IdsIncrease ==
    [][ (req'.op = "create" /\ resp'.status = 201)
          => /\ \A i \in issued : resp'.body.employee_id > i
             /\ issued' = issued \cup {resp'.body.employee_id} ]_vars

C8_Witness ==
    /\ req.op = "create" /\ resp.status = 201
    /\ resp.body.employee_id = 3
    /\ Ids = {1, 3}

\* ------------------------------------------------------------ C9
\* C9 as stated: no two employee rows have the same non-null photo_path.
C9_AsStated ==
    \A i, j \in Ids :
        (i # j /\ employees[i].photo_path # None)
          => employees[i].photo_path # employees[j].photo_path

\* ------------------------------------------------------------ C10
\* C10 as stated: a create answered 409 changes no row and leaves every photo
\* file an existing row refers to with the content it had.
C10_AsStated ==
    [][ (req'.op = "create" /\ resp'.status = 409)
          => /\ employees' = employees
             /\ \A i \in Ids :
                   (employees[i].photo_path # None
                      /\ employees[i].photo_path[2] \in DOMAIN files)
                   => /\ employees[i].photo_path[2] \in DOMAIN files'
                      /\ files'[employees[i].photo_path[2]]
                            = files[employees[i].photo_path[2]] ]_vars

====
